---------------------------- MODULE Spec2Model ----------------------------
(***************************************************************************)
(* Model of python_scripts/22.Unsupervised_learning-anomaly_detection.py.  *)
(*                                                                         *)
(* The script is one linear pass: pc is the line of the statement about    *)
(* to run, env binds Python names to objects, heap holds the array         *)
(* objects (sample matrices, label vectors, score vectors, grids), est     *)
(* holds the estimator instances (mutated in place by fit), and log is     *)
(* the trace of what the run did (library calls, comparisons, figures,     *)
(* the error trace).  Real numbers are fixed point: coordinates are in     *)
(* units of the mesh step h = 0.1, thresholds are in hundredths of a       *)
(* score unit (suffix 100).                                                *)
(*                                                                         *)
(* The estimators and mquantiles are external library code.  Their         *)
(* scoring functions are integer stand-ins with the documented sign        *)
(* conventions; the quantile rules follow the libraries' definitions.      *)
(***************************************************************************)
EXTENDS Integers, Sequences, FiniteSets, TLC

VARIABLES pc, err, env, heap, est, log, q, pn

vars == <<pc, err, env, heap, est, log, q, pn>>

---------------------------------------------------------------------------
(* Bounds of the model *)

\* rows of the blob matrix (the script asks make_blobs for 500)
BlobSamples == 3
\* largest digits data set the provider returns
MaxDigits == 2
\* outcomes of the unseeded randomness of IsolationForest
NumSeeds == 2
\* quantile specification: longest score vector and largest score
MaxLen == 4
MaxScore == 3
\* panel specification: longest run of equal scores in a score vector
MaxBlock == 10

(* Program constants *)

\* alpha_set = 0.95, in percent
alpha_set == 95
\* nu = 0.05, in percent
nu == 5
\* contamination=0.10 and contamination=0.05, in percent
contamination_blobs == 10
contamination_digits == 5
\* h = 0.1 is the unit of length; the margin 1. around the data is 10 h
h == 1
margin == 10
\* images are 8 x 8
img_side == 8
\* X_5[:5], shown on plt.subplots(1, 5); the panels are plt.subplots(2, 5)
n_preview == 5
preview_axes == 5
panel_rows == 2
panel_cols == 5
\* the [-10:] of the strongest inliers
n_strong == 10
\* i = 102, the image shown as an example; the bounded data set keeps it as
\* its first image
i_example == 1
\* the digit the analysis focuses on
digit == 5

---------------------------------------------------------------------------
(* Arithmetic and sequence helpers *)

Abs(a) == IF a < 0 THEN -a ELSE a

Min2(a, b) == IF a < b THEN a ELSE b

Max2(a, b) == IF a > b THEN a ELSE b

RECURSIVE SumSeq(_)
SumSeq(s) == IF s = <<>> THEN 0 ELSE Head(s) + SumSeq(Tail(s))

\* np.min / np.max of a non-empty sequence
SeqMin(s) == CHOOSE m \in {s[k] : k \in 1..Len(s)} : \A k \in 1..Len(s) : m <= s[k]

SeqMax(s) == CHOOSE m \in {s[k] : k \in 1..Len(s)} : \A k \in 1..Len(s) : m >= s[k]

\* np.argsort: the row indices in increasing order of value, ties in row order
ArgSort(v) ==
    SortSeq([k \in 1..Len(v) |-> k],
            LAMBDA a, b : v[a] < v[b] \/ (v[a] = v[b] /\ a < b))

\* np.sort
Sorted(v) == LET o == ArgSort(v) IN [k \in 1..Len(v) |-> v[o[k]]]

\* s[-k:]
LastK(s, k) == IF Len(s) <= k THEN s ELSE SubSeq(s, Len(s) - k + 1, Len(s))

\* s[:k]
FirstK(s, k) == IF Len(s) <= k THEN s ELSE SubSeq(s, 1, k)

\* the row indices a boolean mask selects, in row order (a[mask])
MaskIndices(mask) == SelectSeq([k \in 1..Len(mask) |-> k], LAMBDA k : mask[k])

\* zip(range(n), axes): the indices paired with an axis
ZipRange(n, n_axes) == [k \in 1..Min2(n, n_axes) |-> k]

---------------------------------------------------------------------------
(* Array objects *)

\* a Sample Matrix: d features per row, x the rows
Matrix(d, x) == [t |-> "matrix", d |-> d, x |-> x]

\* a Label Vector
Labels(v) == [t |-> "labels", v |-> v]

\* a Score Vector: by is the estimator instance that produced it, on the
\* object it scored, v one score per row
Scores(by, on, v) == [t |-> "scores", by |-> by, on |-> on, v |-> v]

\* a.reshape(shape) is a view: it shares the data of its base
View(base, shape) == [t |-> "view", base |-> base, shape |-> shape]

\* a Threshold: of is the Score Vector object it was computed from (or the
\* estimator for a native one), by the estimator behind it
Cutoff(of, by, v100) == [t |-> "cutoff", of |-> of, by |-> by, v100 |-> v100]

Rows(M) == Len(M.x)

\* M[idx]: the rows at the given indices, copied
TakeRows(M, idx) == Matrix(M.d, [k \in 1..Len(idx) |-> M.x[idx[k]]])

\* M[:, j]
Column(M, j) == [k \in 1..Rows(M) |-> M.x[k][j]]

---------------------------------------------------------------------------
(* Quantiles (scipy) *)

\* scipy.stats.mstats.mquantiles(a, prob) with its defaults alphap = betap =
\* 0.4: m = alphap + p (1 - alphap - betap), aleph = n p + m,
\* k = floor(clip(aleph, 1, n-1)), gamma = clip(aleph - k, 0, 1), and the
\* result (1 - gamma) x[k-1] + gamma x[k] of the sorted data (0-based there).
\* prob is in percent; the result is in hundredths.
mquantiles(a, prob) ==
    LET x == Sorted(a)
        n == Len(a)
        m100 == 40 + (prob * 20) \div 100
        aleph100 == n * prob + m100
        clip100 == Min2(Max2(aleph100, 100), (n - 1) * 100)
        k == clip100 \div 100
        gamma100 == Min2(Max2(aleph100 - 100 * k, 0), 100)
    IN  IF n = 1 THEN 100 * x[1]
        ELSE (100 - gamma100) * x[k] + gamma100 * x[k + 1]

\* scipy.stats.scoreatpercentile(a, per): idx = per/100 (n - 1) into the
\* sorted data, interpolated by the fraction of idx.  Result in hundredths.
scoreatpercentile(a, per) ==
    LET x == Sorted(a)
        idx100 == per * (Len(a) - 1)
        i == idx100 \div 100
        frac == idx100 % 100
    IN  IF frac = 0 THEN 100 * x[i + 1]
        ELSE (100 - frac) * x[i + 1] + frac * x[i + 2]

\* the number of scores strictly below a cutoff
CountBelow(v, cut100) == Cardinality({k \in 1..Len(v) : 100 * v[k] < cut100})

---------------------------------------------------------------------------
(* Estimators (scikit-learn): KernelDensity, OneClassSVM, IsolationForest *)

Kinds == {"KernelDensity", "OneClassSVM", "IsolationForest"}

\* an estimator as its constructor leaves it
NewEstimator(kind, param) ==
    [kind |-> kind, param |-> param, fitted |-> FALSE, d |-> 0,
     train |-> <<>>, seed |-> 0, threshold100 |-> 0]

Dist(a, b) == SumSeq([j \in 1..Len(a) |-> Abs(a[j] - b[j])])

\* stand-in for a learned score: minus the total distance to the training
\* rows, so that a point far from the data scores low
Closeness(train, p) == - SumSeq([k \in 1..Len(train) |-> Dist(p, train[k])])

\* the score of one observation under a fitted estimator: log-likelihood
\* (higher = more normal), signed distance to the separating surface
\* (negative = outlier side), isolation score (lower = more abnormal; the
\* forest is random, seed picks the training row its trees split around)
RawScore(e, p) ==
    CASE e.kind = "KernelDensity" -> Closeness(e.train, p)
      [] e.kind = "OneClassSVM" ->
            Closeness(e.train, p)
              - SeqMin([k \in 1..Len(e.train) |-> Closeness(e.train, e.train[k])])
      [] e.kind = "IsolationForest" ->
            Closeness(e.train, p)
              - Dist(p, e.train[((e.seed - 1) % Len(e.train)) + 1])

\* the outcome of a library call: an error, or a value
Raised(error) == [err |-> error, v |-> <<>>]

Returned(v) == [err |-> "none", v |-> v]

\* IsolationForest.threshold_ as fit sets it: the contamination quantile of
\* the training scores
IForestThreshold(scores, contamination) ==
    - scoreatpercentile([k \in 1..Len(scores) |-> - scores[k]], 100 - contamination)

\* estimator.fit(M): fails on an empty matrix, else learns from the rows
FitCall(e, M, seed) ==
    IF Rows(M) = 0 THEN Raised("InsufficientData")
    ELSE LET f == [e EXCEPT !.fitted = TRUE, !.d = M.d, !.train = M.x,
                            !.seed = IF e.kind = "IsolationForest" THEN seed ELSE 0]
         IN  Returned(
               IF e.kind = "IsolationForest"
               THEN [f EXCEPT !.threshold100 =
                       IForestThreshold([k \in 1..Rows(M) |-> RawScore(f, M.x[k])],
                                        e.param)]
               ELSE f)

\* score_samples / decision_function: one score per row
ScoreCall(e, M) ==
    IF ~ e.fitted THEN Raised("UnfittedScorerUsed")
    ELSE IF M.d # e.d THEN Raised("ShapeMismatch")
    ELSE Returned([k \in 1..Rows(M) |-> RawScore(e, M.x[k])])

\* IsolationForest.predict from the scores: -1 where decision_function <=
\* threshold_, else 1
IForestPredict(scores, threshold100) ==
    [k \in 1..Len(scores) |-> IF 100 * scores[k] <= threshold100 THEN -1 ELSE 1]

\* predict: -1 (outlier) or 1 per row
PredictCall(e, M) ==
    LET s == ScoreCall(e, M)
    IN  IF s.err # "none" THEN s
        ELSE IF e.kind = "IsolationForest"
        THEN Returned(IForestPredict(s.v, e.threshold100))
        ELSE Returned([k \in 1..Len(s.v) |-> IF s.v[k] < 0 THEN -1 ELSE 1])

\* OneClassSVM.support_: the training rows on or outside the surface
SupportIndices(e) ==
    MaskIndices([k \in 1..Len(e.train) |-> RawScore(e, e.train[k]) <= 0])

---------------------------------------------------------------------------
(* Data set providers *)

centers == 3
random_state == 42
n_features_blobs == 2

\* make_blobs(n_features, centers, n_samples, random_state): the seed fixes
\* the draw; n_samples rows, each labelled with its cluster
make_blobs(n_feat, n_centers, n, seed) ==
    IF n_centers <= 0 \/ n_feat <= 0 \/ n <= 0 THEN Raised("InvalidConfiguration")
    ELSE Returned(
           [X |-> Matrix(n_feat, [k \in 1..n |->
                   [j \in 1..n_feat |-> (seed * k + j * k * k) % (n_centers + j)]]),
            y |-> Labels([k \in 1..n |-> k % n_centers])])

\* the data sets load_digits() may hand back: n images of img_side x
\* img_side pixels (row-major, here of one grey level each) and their digits
DigitSets ==
    UNION { { [images |-> [k \in 1..n |-> [j \in 1..(img_side * img_side) |-> grey[k]]],
               target |-> tgt] :
                 grey \in [1..n -> {0, 1}], tgt \in [1..n -> {digit - 1, digit}] } :
            n \in 1..MaxDigits }

---------------------------------------------------------------------------
(* The interpreter: names, objects, the trace *)

Scalar(v) == [t |-> "int", v |-> v]

\* one entry of the trace of the run
Event(ev, pipe, line, e, obj, cut, out) ==
    [ev |-> ev, pipe |-> pipe, line |-> line, est |-> e, obj |-> obj,
     cut |-> cut, out |-> out]

\* fault variant of Running: every statement wrapped in try / except: pass
Running_Swallowed == TRUE

\* the next statement runs only while no exception is propagating: the
\* script has no try / except
Running == err = "none"

At(line) == pc = line /\ Running

\* an exception leaves the failing statement: nothing is bound, the trace is
\* printed and the interpreter stops
Raise(error, pipe) ==
    /\ err' = error
    /\ log' = Append(log, Event("raise", pipe, pc, "", "", "", error))
    /\ UNCHANGED <<pc, env, heap, est, q, pn>>

\* the array an object id stands for, seen through a reshape if it is a view
AsMatrix(id) ==
    IF heap[id].t = "view"
    THEN Matrix(heap[id].shape[2], heap[heap[id].base].x)
    ELSE heap[id]

\* a.reshape(shape): defined when the sizes agree
CanReshape(n, shape) == n = shape[1] * shape[2]

idle == [stage |-> "idle"]

Init ==
    /\ pc = 60
    /\ err = "none"
    /\ env = <<>>
    /\ heap = <<>>
    /\ est = <<>>
    /\ log = <<>>
    /\ q = idle
    /\ pn = idle

---------------------------------------------------------------------------
(* The statements of the script, cell by cell *)

\* X, y = make_blobs(n_features=2, centers=3, n_samples=500, random_state=42)
MakeBlobs ==
    /\ At(60)
    /\ LET r == make_blobs(n_features_blobs, centers, BlobSamples, random_state)
       IN  IF r.err # "none" THEN Raise(r.err, "blobs")
           ELSE /\ heap' = ("X@60" :> r.v.X) @@ ("y@60" :> r.v.y) @@ heap
                /\ env' = ("X" :> "X@60") @@ ("y" :> "y@60") @@ env
                /\ log' = Append(log, Event("provider", "blobs", 60, "", "", "", "X@60"))
                /\ pc' = 67
                /\ UNCHANGED <<err, est, q, pn>>

\* plt.scatter(X[:, 0], X[:, 1])
ScatterRaw ==
    /\ At(67)
    /\ log' = Append(log, Event("render", "preview", 68, "", env["X"], "", ""))
    /\ pc' = 78
    /\ UNCHANGED <<err, env, heap, est, q, pn>>

\* kde = KernelDensity(kernel='gaussian')
KdeConstruct ==
    /\ At(78)
    /\ est' = ("KernelDensity@78" :> NewEstimator("KernelDensity", 0)) @@ est
    /\ env' = ("kde" :> "KernelDensity@78") @@ env
    /\ log' = Append(log, Event("construct", "density", 78, "KernelDensity@78", "", "", ""))
    /\ pc' = 79
    /\ UNCHANGED <<err, heap, q, pn>>

\* kde = kde.fit(X): fit returns the instance it was called on
KdeFit ==
    /\ At(79)
    /\ LET id == env["kde"]
           r == FitCall(est[id], AsMatrix(env["X"]), 0)
       IN  IF r.err # "none" THEN Raise(r.err, "density")
           ELSE /\ est' = [est EXCEPT ![id] = r.v]
                /\ log' = Append(log, Event("fit", "density", 79, id, env["X"], "", ""))
                /\ pc' = 83
                /\ UNCHANGED <<err, env, heap, q, pn>>

\* fault variant of KdeScoreX: kde_X = kde.score_samples(X[1:])
KdeScoreX_Sliced ==
    /\ pc = 83 /\ err = "none"
    /\ LET id == env["kde"]
           X == AsMatrix(env["X"])
           r == ScoreCall(est[id], TakeRows(X, [k \in 1..(Rows(X) - 1) |-> k + 1]))
       IN  /\ heap' = ("kde_X@83" :> Scores(id, env["X"], r.v)) @@ heap
           /\ log' = Append(log, Event("score", "density", 83, id, env["X"], "", "kde_X@83"))
    /\ env' = ("kde_X" :> "kde_X@83") @@ env
    /\ pc' = 87
    /\ UNCHANGED <<err, est, q, pn>>

\* kde_X = kde.score_samples(X)
KdeScoreX ==
    /\ At(83)
    /\ LET id == env["kde"]
           r == ScoreCall(est[id], AsMatrix(env["X"]))
       IN  IF r.err # "none" THEN Raise(r.err, "density")
           ELSE /\ heap' = ("kde_X@83" :> Scores(id, env["X"], r.v)) @@ heap
                /\ env' = ("kde_X" :> "kde_X@83") @@ env
                /\ log' = Append(log, Event("score", "density", 83, id, env["X"], "", "kde_X@83"))
                /\ pc' = 87
                /\ UNCHANGED <<err, est, q, pn>>

\* fault variant of QuantileCutoff: mquantiles(scores, alpha_set)
QuantileCutoff_NoComplement(scores, inlier_fraction) == mquantiles(scores, inlier_fraction)

\* mquantiles(scores, 1. - alpha_set), for an inlier fraction in percent
QuantileCutoff(scores, inlier_fraction) == mquantiles(scores, 100 - inlier_fraction)

\* tau_kde = mquantiles(kde_X, 1. - alpha_set)
TauKde ==
    /\ At(87)
    /\ LET s == env["kde_X"]
       IN  /\ heap' = ("tau_kde@89" :>
                         Cutoff(s, heap[s].by, QuantileCutoff(heap[s].v, alpha_set))) @@ heap
           /\ log' = Append(log, Event("threshold", "density", 89, heap[s].by, s, "", "tau_kde@89"))
    /\ env' = ("tau_kde" :> "tau_kde@89") @@ env
    /\ pc' = 92
    /\ UNCHANGED <<err, est, q, pn>>

\* np.arange(lo, hi, step)
arange(lo, hi, step) == [k \in 1..((hi - lo + step - 1) \div step) |-> lo + (k - 1) * step]

\* one array of np.meshgrid(xs, ys): shape (len(ys), len(xs)), constant along
\* the other axis
Mesh(axis, along, shape) == [t |-> "mesh", axis |-> axis, along |-> along, shape |-> shape]

\* np.c_[xx.ravel(), yy.ravel()]: one row per mesh node, row-major
GridOf(xs, ys) ==
    Matrix(2, [k \in 1..(Len(xs) * Len(ys)) |->
                 <<xs[((k - 1) % Len(xs)) + 1], ys[((k - 1) \div Len(xs)) + 1]>>])

\* n_samples, n_features = X.shape; X_range = np.zeros((n_features, 2))
ShapeAndRange ==
    /\ At(92)
    /\ LET X == AsMatrix(env["X"])
       IN  heap' = ("n_samples@92" :> Scalar(Rows(X))) @@ ("n_features@92" :> Scalar(X.d))
                     @@ ("X_range@93" :> [t |-> "array", x |-> [j \in 1..X.d |-> <<0, 0>>]])
                     @@ heap
    /\ env' = ("n_samples" :> "n_samples@92") @@ ("n_features" :> "n_features@92")
                @@ ("X_range" :> "X_range@93") @@ env
    /\ pc' = 94
    /\ UNCHANGED <<err, est, log, q, pn>>

\* X_range[:, 0] = np.min(X, axis=0) - 1.; X_range[:, 1] = np.max(X, axis=0) + 1.
\* (the scratch array X_range is filled in place)
FillRange ==
    /\ At(94)
    /\ LET X == AsMatrix(env["X"])
       IN  heap' = [heap EXCEPT ![env["X_range"]].x =
                      [j \in 1..X.d |-> <<SeqMin(Column(X, j)) - margin,
                                          SeqMax(Column(X, j)) + margin>>]]
    /\ pc' = 97
    /\ UNCHANGED <<err, env, est, log, q, pn>>

\* h = 0.1; x_min, x_max = X_range[0]; y_min, y_max = X_range[1];
\* xx, yy = np.meshgrid(np.arange(...), np.arange(...)); grid = np.c_[...]
MeshGrid ==
    /\ At(97)
    /\ LET range == heap[env["X_range"]].x
           xs == arange(range[1][1], range[1][2], h)
           ys == arange(range[2][1], range[2][2], h)
           shape == <<Len(ys), Len(xs)>>
       IN  heap' = ("xx@100" :> Mesh(xs, 2, shape)) @@ ("yy@100" :> Mesh(ys, 1, shape))
                     @@ ("grid@103" :> GridOf(xs, ys)) @@ heap
    /\ env' = ("xx" :> "xx@100") @@ ("yy" :> "yy@100") @@ ("grid" :> "grid@103") @@ env
    /\ pc' = 106
    /\ UNCHANGED <<err, est, log, q, pn>>

\* Z = estimator.score(grid); Z = Z.reshape(xx.shape): flat is the object
\* the call returns, view the reshaped one the name ends up bound to
ScoreGrid(line, next, pipe, est_name, z_name, flat, view) ==
    /\ At(line)
    /\ LET id == env[est_name]
           r == ScoreCall(est[id], AsMatrix(env["grid"]))
       IN  IF r.err # "none" THEN Raise(r.err, pipe)
           ELSE /\ CanReshape(Len(r.v), heap[env["xx"]].shape)
                /\ heap' = (flat :> Scores(id, env["grid"], r.v))
                             @@ (view :> View(flat, heap[env["xx"]].shape)) @@ heap
                /\ env' = (z_name :> view) @@ env
                /\ log' = Append(log, Event("score", pipe, line, id, env["grid"], "", flat))
                /\ pc' = next
                /\ UNCHANGED <<err, est, q, pn>>

\* Z_kde = kde.score_samples(grid); Z_kde = Z_kde.reshape(xx.shape)
KdeScoreGrid == ScoreGrid(106, 109, "density", "kde", "Z_kde", "Z_kde@106", "Z_kde@107")

\* plt.contour(xx, yy, Z, levels=cut): the level is compared with the scores
\* of every mesh node
Contour(pipe, line, z, cut) ==
    <<Event("compare", pipe, line, heap[heap[z].base].by, heap[z].base, cut, ""),
      Event("render", pipe, line, "", z, cut, "")>>

\* plt.scatter(a[:, 0], a[:, 1])
Scatter(pipe, line, a) == <<Event("render", pipe, line, "", a, "", "")>>

\* c_0 = plt.contour(xx, yy, Z_kde, levels=tau_kde, ...); plt.scatter(X...)
PlotKde ==
    /\ At(109)
    /\ log' = log \o Contour("density", 110, env["Z_kde"], env["tau_kde"])
                  \o Scatter("density", 112, env["X"])
    /\ pc' = 125
    /\ UNCHANGED <<err, env, heap, est, q, pn>>

\* nu = 0.05; ocsvm = OneClassSVM(kernel='rbf', gamma=0.05, nu=nu)
OcsvmConstruct ==
    /\ At(125)
    /\ est' = ("OneClassSVM@126" :> NewEstimator("OneClassSVM", nu)) @@ est
    /\ env' = ("ocsvm" :> "OneClassSVM@126") @@ env
    /\ log' = Append(log, Event("construct", "ocsvm", 126, "OneClassSVM@126", "", "", ""))
    /\ pc' = 127
    /\ UNCHANGED <<err, heap, q, pn>>

\* ocsvm.fit(X)
OcsvmFit ==
    /\ At(127)
    /\ LET id == env["ocsvm"]
           r == FitCall(est[id], AsMatrix(env["X"]), 0)
       IN  IF r.err # "none" THEN Raise(r.err, "ocsvm")
           ELSE /\ est' = [est EXCEPT ![id] = r.v]
                /\ log' = Append(log, Event("fit", "ocsvm", 127, id, env["X"], "", ""))
                /\ pc' = 130
                /\ UNCHANGED <<err, env, heap, q, pn>>

\* the rows predict marks -1
OutlierRows(pred) == MaskIndices([k \in 1..Len(pred) |-> pred[k] = -1])

\* X_outliers = M[estimator.predict(M) == -1]: predict scores M and cuts
\* the scores at the estimator's own boundary
SelectOutliers(line, next, pipe, est_name, m_name, out) ==
    /\ At(line)
    /\ LET id == env[est_name]
           m == env[m_name]
           r == PredictCall(est[id], AsMatrix(m))
       IN  IF r.err # "none" THEN Raise(r.err, pipe)
           ELSE /\ heap' = (out :> TakeRows(AsMatrix(m), OutlierRows(r.v))) @@ heap
                /\ env' = ("X_outliers" :> out) @@ env
                /\ log' = log \o <<Event("score", pipe, line, id, m, "", ""),
                                   Event("classify", pipe, line, id, m, "", out)>>
                /\ pc' = next
                /\ UNCHANGED <<err, est, q, pn>>

\* X_outliers = X[ocsvm.predict(X) == -1]
OcsvmOutliers == SelectOutliers(130, 133, "ocsvm", "ocsvm", "X", "X_outliers@130")

\* Z_ocsvm = ocsvm.decision_function(grid); Z_ocsvm = Z_ocsvm.reshape(xx.shape)
OcsvmScoreGrid == ScoreGrid(133, 136, "ocsvm", "ocsvm", "Z_ocsvm", "Z_ocsvm@133", "Z_ocsvm@134")

\* the estimator's own decision boundary as a level: levels=[0] for the
\* One-Class SVM, levels=[iforest.threshold_] for the Isolation Forest
NativeCutoff(id) ==
    Cutoff(id, id, IF est[id].kind = "IsolationForest" THEN est[id].threshold100 ELSE 0)

\* fault variant of PlotOcsvm: plt.contour(xx, yy, Z_ocsvm, levels=tau_kde, ...)
PlotOcsvm_TauLevel ==
    /\ pc = 136 /\ err = "none"
    /\ log' = log \o Contour("ocsvm", 137, env["Z_ocsvm"], env["tau_kde"])
                  \o Scatter("ocsvm", 139, env["X"])
                  \o Scatter("ocsvm", 140, env["X_outliers"])
    /\ pc' = 149
    /\ UNCHANGED <<err, env, heap, est, q, pn>>

\* plt.contour(xx, yy, Z_ocsvm, levels=[0], ...); the two scatters
PlotOcsvm ==
    /\ At(136)
    /\ heap' = ("levels@137" :> NativeCutoff(env["ocsvm"])) @@ heap
    /\ log' = log \o <<Event("threshold", "ocsvm", 137, env["ocsvm"], "", "", "levels@137")>>
                  \o Contour("ocsvm", 137, env["Z_ocsvm"], "levels@137")
                  \o Scatter("ocsvm", 139, env["X"])
                  \o Scatter("ocsvm", 140, env["X_outliers"])
    /\ pc' = 149
    /\ UNCHANGED <<err, env, est, q, pn>>

\* X_SV = X[ocsvm.support_]; n_SV = len(X_SV); n_outliers = len(X_outliers);
\* the print of n_outliers / n_samples <= nu <= n_SV / n_samples
SupportVectors ==
    /\ At(149)
    /\ LET X == AsMatrix(env["X"])
           sv == TakeRows(X, SupportIndices(est[env["ocsvm"]]))
       IN  /\ heap' = ("X_SV@149" :> sv) @@ ("n_SV@150" :> Scalar(Rows(sv)))
                        @@ ("n_outliers@151" :> Scalar(Rows(heap[env["X_outliers"]]))) @@ heap
    /\ env' = ("X_SV" :> "X_SV@149") @@ ("n_SV" :> "n_SV@150")
                @@ ("n_outliers" :> "n_outliers@151") @@ env
    /\ log' = Append(log, Event("print", "ocsvm", 153, env["ocsvm"], env["n_samples"], "", ""))
    /\ pc' = 162
    /\ UNCHANGED <<err, est, q, pn>>

\* plt.contourf(xx, yy, Z_ocsvm, 10, ...); the scatters of X and X_SV
PlotSV ==
    /\ At(162)
    /\ log' = log \o Scatter("ocsvm", 163, env["Z_ocsvm"])
                  \o Scatter("ocsvm", 164, env["X"])
                  \o Scatter("ocsvm", 165, env["X_SV"])
    /\ pc' = 190
    /\ UNCHANGED <<err, env, heap, est, q, pn>>

\* iforest = IsolationForest(n_estimators=300, contamination=0.10)
IForestConstruct ==
    /\ At(190)
    /\ est' = ("IsolationForest@190" :> NewEstimator("IsolationForest", contamination_blobs)) @@ est
    /\ env' = ("iforest" :> "IsolationForest@190") @@ env
    /\ log' = Append(log, Event("construct", "iforest", 190, "IsolationForest@190", "", "", ""))
    /\ pc' = 191
    /\ UNCHANGED <<err, heap, q, pn>>

\* iforest = iforest.fit(M): no random_state is given, so the forest differs
\* from run to run
FitIForest(line, next, pipe, m_name) ==
    /\ At(line)
    /\ \E seed \in 1..NumSeeds :
         LET id == env["iforest"]
             r == FitCall(est[id], AsMatrix(env[m_name]), seed)
         IN  IF r.err # "none" THEN Raise(r.err, pipe)
             ELSE /\ est' = [est EXCEPT ![id] = r.v]
                  /\ log' = Append(log, Event("fit", pipe, line, id, env[m_name], "", ""))
                  /\ pc' = next
                  /\ UNCHANGED <<err, env, heap, q, pn>>

\* iforest = iforest.fit(X)
IForestFit == FitIForest(191, 194, "iforest", "X")

\* Z_iforest = iforest.decision_function(grid); Z_iforest = Z_iforest.reshape(xx.shape)
IForestScoreGrid ==
    ScoreGrid(194, 197, "iforest", "iforest", "Z_iforest", "Z_iforest@194", "Z_iforest@195")

\* plt.contour(xx, yy, Z_iforest, levels=[iforest.threshold_], ...); scatter
PlotIForest ==
    /\ At(197)
    /\ heap' = ("levels@199" :> NativeCutoff(env["iforest"])) @@ heap
    /\ log' = log \o <<Event("threshold", "iforest", 199, env["iforest"], "", "", "levels@199")>>
                  \o Contour("iforest", 198, env["Z_iforest"], "levels@199")
                  \o Scatter("iforest", 203, env["X"])
    /\ pc' = 227
    /\ UNCHANGED <<err, env, est, q, pn>>

\* digits = load_digits(); images = digits.images; labels = digits.target
LoadDigits ==
    /\ At(227)
    /\ \E ds \in DigitSets :
         /\ heap' = ("digits.images@227" :>
                        [t |-> "images", x |-> ds.images,
                         shape |-> <<Len(ds.images), img_side, img_side>>])
                      @@ ("digits.target@227" :> Labels(ds.target)) @@ heap
         /\ log' = Append(log, Event("provider", "digits", 227, "", "", "", "digits.images@227"))
    /\ env' = ("images" :> "digits.images@227") @@ ("labels" :> "digits.target@227") @@ env
    /\ pc' = 238
    /\ UNCHANGED <<err, est, q, pn>>

\* i = 102; plt.imshow(images[i], ...)
ShowDigit ==
    /\ At(238)
    /\ i_example \in 1..Len(heap[env["images"]].x)
    /\ heap' = ("i@238" :> Scalar(i_example)) @@ heap
    /\ env' = ("i" :> "i@238") @@ env
    /\ log' = Append(log, Event("render", "preview", 243, "", env["images"], "", ""))
    /\ pc' = 250
    /\ UNCHANGED <<err, est, q, pn>>

\* n_samples = len(digits.images); data = digits.images.reshape((n_samples, -1))
FlattenDigits ==
    /\ At(250)
    /\ LET n == Len(heap[env["images"]].x)
       IN  /\ heap' = ("n_samples@250" :> Scalar(n))
                        @@ ("data@251" :> View("digits.images@227", <<n, img_side * img_side>>))
                        @@ heap
    /\ env' = ("n_samples" :> "n_samples@250") @@ ("data" :> "data@251") @@ env
    /\ pc' = 257
    /\ UNCHANGED <<err, est, log, q, pn>>

\* fault variant of BindXy: X[:] = data, which writes into the blob matrix
BindXy_InPlace ==
    /\ pc = 257 /\ err = "none"
    /\ heap' = [heap EXCEPT ![env["X"]] = AsMatrix(env["data"])]
    /\ env' = ("y" :> "digits.target@227") @@ env
    /\ pc' = 267
    /\ UNCHANGED <<err, est, log, q, pn>>

\* X = data; y = digits.target: the names are rebound, no array is written
BindXy ==
    /\ At(257)
    /\ env' = ("X" :> env["data"]) @@ ("y" :> "digits.target@227") @@ env
    /\ pc' = 267
    /\ UNCHANGED <<err, heap, est, log, q, pn>>

\* X_5 = X[y == 5]
SelectFives ==
    /\ At(267)
    /\ LET y == heap[env["y"]].v
       IN  heap' = ("X_5@267" :>
                      TakeRows(AsMatrix(env["X"]),
                               MaskIndices([k \in 1..Len(y) |-> y[k] = digit]))) @@ heap
    /\ env' = ("X_5" :> "X_5@267") @@ env
    /\ pc' = 273
    /\ UNCHANGED <<err, est, log, q, pn>>

\* for ax, x in zip(axes, X_5[:5]): ax.imshow(x.reshape(8, 8), ...)
PreviewFives ==
    /\ At(273)
    /\ \A k \in 1..Len(ZipRange(Len(FirstK(heap[env["X_5"]].x, n_preview)), preview_axes)) :
         CanReshape(Len(heap[env["X_5"]].x[k]), <<img_side, img_side>>)
    /\ log' = Append(log, Event("render", "preview", 276, "", env["X_5"], "", ""))
    /\ pc' = 284
    /\ UNCHANGED <<err, env, heap, est, q, pn>>

\* iforest = IsolationForest(contamination=0.05): the name now means a new,
\* unfitted instance
IForest5Construct ==
    /\ At(284)
    /\ est' = ("IsolationForest@285" :> NewEstimator("IsolationForest", contamination_digits)) @@ est
    /\ env' = ("iforest" :> "IsolationForest@285") @@ env
    /\ log' = Append(log, Event("construct", "digits", 285, "IsolationForest@285", "", "", ""))
    /\ pc' = 286
    /\ UNCHANGED <<err, heap, q, pn>>

\* fault variant of IForest5Fit: IsolationForest(contamination=0.05).fit(X_5),
\* which fits a second instance and leaves the one bound to iforest unfitted
IForest5Fit_NotKept ==
    /\ pc = 286 /\ err = "none"
    /\ Rows(heap[env["X_5"]]) > 0
    /\ log' = Append(log, Event("fit", "digits", 286, "IsolationForest@286", env["X_5"], "", ""))
    /\ pc' = 292
    /\ UNCHANGED <<err, env, heap, est, q, pn>>

\* iforest = iforest.fit(X_5)
IForest5Fit == FitIForest(286, 292, "digits", "X_5")

\* fault variant of IForest5Score: iforest_X = iforest.decision_function(grid)
IForest5Score_Grid ==
    /\ pc = 292 /\ err = "none"
    /\ LET id == env["iforest"]
           r == ScoreCall(est[id], AsMatrix(env["grid"]))
       IN  IF r.err # "none" THEN Raise(r.err, "digits")
           ELSE /\ heap' = ("iforest_X@292" :> Scores(id, env["grid"], r.v)) @@ heap
                /\ env' = ("iforest_X" :> "iforest_X@292") @@ env
                /\ log' = Append(log, Event("score", "digits", 292, id, env["grid"], "", "iforest_X@292"))
                /\ pc' = 299
                /\ UNCHANGED <<err, est, q, pn>>

\* iforest_X = iforest.decision_function(X_5); plt.hist(iforest_X)
IForest5Score ==
    /\ At(292)
    /\ LET id == env["iforest"]
           r == ScoreCall(est[id], AsMatrix(env["X_5"]))
       IN  IF r.err # "none" THEN Raise(r.err, "digits")
           ELSE /\ heap' = ("iforest_X@292" :> Scores(id, env["X_5"], r.v)) @@ heap
                /\ env' = ("iforest_X" :> "iforest_X@292") @@ env
                /\ log' = log \o <<Event("score", "digits", 292, id, env["X_5"], "", "iforest_X@292"),
                                   Event("render", "digits", 293, "", "iforest_X@292", "", "")>>
                /\ pc' = 299
                /\ UNCHANGED <<err, est, q, pn>>

\* np.argsort(iforest_X)[-10:]: the rows of the strongest inliers
StrongInlierRows(scores) == LastK(ArgSort(scores), n_strong)

\* the rows of a selection that get an axis of the 2 x 5 panel:
\* for i, ax in zip(range(len(sel)), axes.ravel())
PanelRows(n_selected) == ZipRange(n_selected, panel_rows * panel_cols)

\* X_strong_inliers = X_5[np.argsort(iforest_X)[-10:]] and its panel
InlierPanel ==
    /\ At(299)
    /\ LET sel == TakeRows(heap[env["X_5"]], StrongInlierRows(heap[env["iforest_X"]].v))
       IN  /\ \A k \in 1..Len(PanelRows(Rows(sel))) :
                 CanReshape(Len(sel.x[k]), <<img_side, img_side>>)
           /\ heap' = ("X_strong_inliers@299" :> sel) @@ heap
    /\ env' = ("X_strong_inliers" :> "X_strong_inliers@299") @@ env
    /\ log' = Append(log, Event("render", "digits", 304, "", "X_strong_inliers@299", "", ""))
    /\ pc' = 312
    /\ UNCHANGED <<err, est, q, pn>>

\* fault variant of Iforest5Outliers: the statement is missing, so X_outliers
\* still names the outliers of the One-Class SVM
Iforest5Outliers_Skipped ==
    /\ pc = 312 /\ err = "none"
    /\ pc' = 316
    /\ UNCHANGED <<err, env, heap, est, log, q, pn>>

\* X_outliers = X_5[iforest.predict(X_5) == -1]
Iforest5Outliers == SelectOutliers(312, 316, "digits", "iforest", "X_5", "X_outliers@314")

\* for i, ax in zip(range(len(X_outliers)), axes.ravel()): ax.imshow(...)
OutlierPanel ==
    /\ At(316)
    /\ \A k \in 1..Len(PanelRows(Rows(heap[env["X_outliers"]]))) :
         CanReshape(Len(heap[env["X_outliers"]].x[k]), <<img_side, img_side>>)
    /\ log' = Append(log, Event("render", "digits", 317, "", env["X_outliers"], "", ""))
    /\ pc' = 320
    /\ UNCHANGED <<err, env, heap, est, q, pn>>

Next ==
    \/ MakeBlobs \/ ScatterRaw \/ KdeConstruct \/ KdeFit \/ KdeScoreX \/ TauKde
    \/ ShapeAndRange \/ FillRange \/ MeshGrid \/ KdeScoreGrid \/ PlotKde
    \/ OcsvmConstruct \/ OcsvmFit \/ OcsvmOutliers \/ OcsvmScoreGrid \/ PlotOcsvm
    \/ SupportVectors \/ PlotSV
    \/ IForestConstruct \/ IForestFit \/ IForestScoreGrid \/ PlotIForest
    \/ LoadDigits \/ ShowDigit \/ FlattenDigits \/ BindXy \/ SelectFives
    \/ PreviewFives \/ IForest5Construct \/ IForest5Fit \/ IForest5Score
    \/ InlierPanel \/ Iforest5Outliers \/ OutlierPanel

Spec == Init /\ [][Next]_vars

---------------------------------------------------------------------------
(* The threshold selection on its own: any score vector, any inlier        *)
(* fraction                                                                *)

InlierFractions == {50, 75, alpha_set}

ScoreVectors == UNION { [1..n -> 0..MaxScore] : n \in 1..MaxLen }

\* no script is running
NoRun ==
    /\ pc = 0
    /\ err = "none"
    /\ env = <<>>
    /\ heap = <<>>
    /\ est = <<>>
    /\ log = <<>>

InitQ ==
    /\ NoRun
    /\ pn = idle
    /\ q \in { [stage |-> "input", scores |-> s, f |-> f, cut100 |-> 0, below |-> 0] :
                s \in ScoreVectors, f \in InlierFractions }

\* tau = mquantiles(scores, 1. - f)
SelectCutoff ==
    /\ q.stage = "input"
    /\ q' = [q EXCEPT !.stage = "cut", !.cut100 = QuantileCutoff(q.scores, q.f)]
    /\ UNCHANGED <<pc, err, env, heap, est, log, pn>>

\* the scores the cutoff leaves strictly below it
CountOutliers ==
    /\ q.stage = "cut"
    /\ q' = [q EXCEPT !.stage = "counted", !.below = CountBelow(q.scores, q.cut100)]
    /\ UNCHANGED <<pc, err, env, heap, est, log, pn>>

NextQ == SelectCutoff \/ CountOutliers

SpecQ == InitQ /\ [][NextQ]_vars

---------------------------------------------------------------------------
(* The two image panels on their own: any vector of decision scores of     *)
(* the digit-5 images                                                      *)

\* score vectors made of up to three runs of equal scores
BlockVectors ==
    { [k \in 1..(n[1] + n[2] + n[3]) |->
         IF k <= n[1] THEN v[1] ELSE IF k <= n[1] + n[2] THEN v[2] ELSE v[3]] :
      n \in { m \in [1..3 -> 0..MaxBlock] : m[1] + m[2] + m[3] >= 1 },
      v \in [1..3 -> 0..2] }

InitPanel ==
    /\ NoRun
    /\ q = idle
    /\ pn \in { [stage |-> "scored", scores |-> s, inliers |-> <<>>, shown_in |-> <<>>,
                 outliers |-> <<>>, shown_out |-> <<>>] : s \in BlockVectors }

\* the rows of X_5 that a panel shows, given the rows selected for it
Shown(sel) == [k \in 1..Len(PanelRows(Len(sel))) |-> sel[PanelRows(Len(sel))[k]]]

\* X_strong_inliers = X_5[np.argsort(iforest_X)[-10:]] and its panel
ShowInliers ==
    /\ pn.stage = "scored"
    /\ LET sel == StrongInlierRows(pn.scores)
       IN  pn' = [pn EXCEPT !.stage = "inliers", !.inliers = sel, !.shown_in = Shown(sel)]
    /\ UNCHANGED <<pc, err, env, heap, est, log, q>>

\* X_outliers = X_5[iforest.predict(X_5) == -1] and its panel, the forest
\* having been fit on X_5 with contamination=0.05
ShowOutliers ==
    /\ pn.stage = "inliers"
    /\ LET sel == OutlierRows(IForestPredict(pn.scores,
                                IForestThreshold(pn.scores, contamination_digits)))
       IN  pn' = [pn EXCEPT !.stage = "outliers", !.outliers = sel, !.shown_out = Shown(sel)]
    /\ UNCHANGED <<pc, err, env, heap, est, log, q>>

NextPanel == ShowInliers \/ ShowOutliers

SpecPanel == InitPanel /\ [][NextPanel]_vars

---------------------------------------------------------------------------
(* Properties *)

Pipelines == {"density", "ocsvm", "iforest", "digits"}

\* the data set a pipeline works on
DatasetOf(pipe) == IF pipe = "digits" THEN "digits" ELSE "blobs"

\* the entries of the trace before entry k
Before(k) == {log[j] : j \in 1..(k - 1)}

\* the arrays of the heap a scoring call can be given
MatrixIds == {o \in DOMAIN heap : heap[o].t \in {"matrix", "view"} /\
                (heap[o].t = "view" => heap[heap[o].base].t = "images")}

\* the run has gone through every cell without an error
Finished == pc = 320 /\ err = "none"

\* C1: a scoring call (score_samples, decision_function, predict) on an
\* instance that was never fit fails with UnfittedScorerUsed and returns no
\* Score Vector, whatever the matrix; and in the run every scoring call on
\* an instance comes after a fit of that same instance, so that the error
\* is never raised.
C1_FitBeforeScore ==
    /\ err # "UnfittedScorerUsed"
    /\ \A k \in 1..Len(log) :
         log[k].ev \in {"score", "classify"} =>
           /\ (\E e \in Before(k) : e.ev = "fit" /\ e.est = log[k].est)
           /\ est[log[k].est].fitted
    /\ \A id \in DOMAIN est : \A m \in MatrixIds :
         ~ est[id].fitted =>
           /\ ScoreCall(est[id], AsMatrix(m)) = Raised("UnfittedScorerUsed")
           /\ PredictCall(est[id], AsMatrix(m)) = Raised("UnfittedScorerUsed")

\* C1 witness: the run is over and the forest created at line 285, the
\* second instance the name iforest was bound to, has scored and classified
C1_Witness ==
    /\ Finished
    /\ \E k \in 1..Len(log) : log[k].ev = "classify" /\ log[k].est = "IsolationForest@285"
    /\ \E k \in 1..Len(log) : log[k].ev = "score" /\ log[k].est = "KernelDensity@78"

\* C2: once a statement has raised, nothing more happens: the error is
\* neither cleared nor retried, no later statement runs, and the failing
\* statement itself has bound and created nothing.
C2_ErrorAborts ==
    [][ /\ (err # "none" => UNCHANGED vars)
        /\ (err = "none" /\ err' # "none" =>
              /\ pc' = pc /\ env' = env /\ heap' = heap /\ est' = est
              /\ log' = Append(log, Event("raise", log'[Len(log')].pipe, pc, "", "", "", err'))) ]_vars

\* C2 witness: the fit at line 286 raised InsufficientData and the run
\* stands there, with none of the later cells' names bound
C2_Witness ==
    /\ err = "InsufficientData"
    /\ pc = 286
    /\ "iforest_X" \notin DOMAIN env
    /\ log[Len(log)].ev = "raise"

\* C3 (as claimed): in every pipeline the steps come in the order provider,
\* fit, score, threshold selection or classification, rendering: no
\* threshold or classification before a scoring of the pipeline, and no
\* rendering of the pipeline before its threshold is selected.
C3_StrictOrder ==
    \A k \in 1..Len(log) : log[k].pipe \in Pipelines =>
      /\ log[k].ev = "fit" =>
           (\E e \in Before(k) : e.ev = "provider" /\ e.pipe = DatasetOf(log[k].pipe))
      /\ log[k].ev = "score" =>
           (\E e \in Before(k) : e.ev = "fit" /\ e.pipe = log[k].pipe)
      /\ log[k].ev \in {"threshold", "classify"} =>
           (\E e \in Before(k) : e.ev = "score" /\ e.pipe = log[k].pipe)
      /\ log[k].ev = "render" =>
           (\E e \in Before(k) : e.ev \in {"threshold", "classify"} /\ e.pipe = log[k].pipe)

\* C3 (amended): in every pipeline the data set is provided before the fit,
\* the fit comes before every scoring, every threshold selection or
\* classification comes after a scoring of its pipeline, every rendering
\* of the pipeline comes after its scoring, and a rendering that draws a
\* threshold level or a classified subset comes after that threshold was
\* selected or that classification made, in the same pipeline; a finished
\* run has gone through all of these steps in all four pipelines.
C3_Order ==
    /\ \A k \in 1..Len(log) : log[k].pipe \in Pipelines =>
         /\ log[k].ev = "fit" =>
              (\E e \in Before(k) : e.ev = "provider" /\ e.pipe = DatasetOf(log[k].pipe))
         /\ log[k].ev = "score" =>
              (\E e \in Before(k) : e.ev = "fit" /\ e.pipe = log[k].pipe)
         /\ log[k].ev \in {"threshold", "classify"} =>
              (\E e \in Before(k) : e.ev = "score" /\ e.pipe = log[k].pipe)
         /\ log[k].ev = "render" =>
              /\ (\E e \in Before(k) : e.ev = "score" /\ e.pipe = log[k].pipe)
              /\ log[k].cut # "" =>
                   (\E e \in Before(k) : e.ev = "threshold" /\ e.pipe = log[k].pipe
                                           /\ e.out = log[k].cut)
              /\ (\E j \in 1..Len(log) : log[j].ev = "classify" /\ log[j].out = log[k].obj) =>
                   (\E e \in Before(k) : e.ev = "classify" /\ e.pipe = log[k].pipe
                                           /\ e.out = log[k].obj)
    /\ Finished =>
         \A p \in Pipelines : \A ev \in {"fit", "score", "render"} :
           \E k \in 1..Len(log) : log[k].pipe = p /\ log[k].ev = ev

\* C3 witness: a finished run, whose digit-5 pipeline has drawn its
\* histogram, its inlier panel and its outlier panel
C3_Witness ==
    /\ Finished
    /\ \E k \in 1..Len(log) : log[k].ev = "render" /\ log[k].obj = "X_outliers@314"
    /\ \E k \in 1..Len(log) : log[k].ev = "render" /\ log[k].obj = "iforest_X@292"

\* the comparisons of the trace that use a quantile cutoff
QuantileCompares ==
    {k \in 1..Len(log) : /\ log[k].ev = "compare"
                          /\ heap[log[k].cut].of \in DOMAIN heap
                          /\ heap[heap[log[k].cut].of].t = "scores"}

\* C4 (as claimed): a cutoff computed by quantile is only ever compared
\* with the very Score Vector it was computed from.
C4_SameVector ==
    \A k \in QuantileCompares : log[k].obj = heap[log[k].cut].of

\* C4 (amended): a cutoff computed by quantile is only ever compared with
\* Score Vectors produced by the fitted scorer instance that produced the
\* vector it was computed from (tau_kde, computed from kde_X, is the contour
\* level of the grid scores of the same kde), never with another scorer's.
C4_SameScorer ==
    \A k \in QuantileCompares :
      /\ heap[log[k].obj].t = "scores"
      /\ heap[log[k].obj].by = heap[heap[log[k].cut].of].by
      /\ log[k].est = heap[log[k].cut].by

\* C4 witness: tau_kde has been used as a contour level
C4_Witness ==
    \E k \in 1..Len(log) :
      log[k].ev = "compare" /\ log[k].cut = "tau_kde@89" /\ log[k].obj = "Z_kde@106"

\* the values of a vector are pairwise distinct
Distinct(v) == \A a, b \in 1..Len(v) : a # b => v[a] # v[b]

\* the share of the scores, in percent, that the cutoff is meant to leave below
TargetBelow(f) == 100 - f

\* C5 (as claimed): for any Score Vector and inlier fraction f the share of
\* the scores strictly below the cutoff is (1 - f), to within the one
\* order statistic the interpolation can move it by.
C5_FractionBelow ==
    q.stage = "counted" =>
      Abs(100 * q.below - Len(q.scores) * TargetBelow(q.f)) <= 100

\* C5 (amended): the cutoff is the (1 - f)-quantile by linear interpolation
\* between two adjacent order statistics, those whose rank is within one of
\* n (1 - f) (plotting positions n p + 0.4 + 0.2 p); the scores strictly below
\* it number at most n (1 - f) + 1 for any Score Vector, and at least
\* n (1 - f) - 1 when the scores are pairwise distinct.
C5_Quantile ==
    q.stage = "counted" =>
      LET x == Sorted(q.scores)
          n == Len(q.scores)
          np100 == n * TargetBelow(q.f)
      IN  /\ \/ n = 1 /\ q.cut100 = 100 * x[1]
             \/ \E j \in 1..(n - 1) :
                  /\ 100 * x[j] <= q.cut100 /\ q.cut100 <= 100 * x[j + 1]
                  /\ Abs(100 * j - np100) <= 100
          /\ 100 * q.below <= np100 + 100
          /\ Distinct(q.scores) => 100 * q.below >= np100 - 100

\* C5 witness: a vector of distinct scores whose cutoff falls strictly
\* between two of them and leaves some of them below
C5_Witness ==
    /\ q.stage = "counted"
    /\ Len(q.scores) = MaxLen
    /\ Distinct(q.scores)
    /\ q.below > 0
    /\ \A k \in 1..Len(q.scores) : 100 * q.scores[k] # q.cut100

\* C6: a scoring or classifying call with a matrix whose feature count is
\* not the one the instance was fit on fails with ShapeMismatch and returns
\* no Score Vector; and in the run every matrix scored has the feature
\* count of the matrix its scorer was fit on, also after X is rebound to
\* the digits, so that the error is never raised.
C6_ShapesAgree ==
    /\ err # "ShapeMismatch"
    /\ \A k \in 1..Len(log) :
         log[k].ev \in {"score", "classify"} =>
           /\ AsMatrix(log[k].obj).d = est[log[k].est].d
           /\ \E j \in 1..(k - 1) :
                /\ log[j].ev = "fit" /\ log[j].est = log[k].est
                /\ AsMatrix(log[j].obj).d = AsMatrix(log[k].obj).d
    /\ \A id \in DOMAIN est : \A m \in MatrixIds :
         est[id].fitted /\ AsMatrix(m).d # est[id].d =>
           /\ ScoreCall(est[id], AsMatrix(m)) = Raised("ShapeMismatch")
           /\ PredictCall(est[id], AsMatrix(m)) = Raised("ShapeMismatch")

\* C6 witness: a finished run: X names the digits, of another feature count
\* than the blobs the first three scorers were fit on, and the second
\* forest has scored X_5
C6_Witness ==
    /\ Finished
    /\ AsMatrix(env["X"]).d # est[env["kde"]].d
    /\ \E k \in 1..Len(log) :
         log[k].ev = "score" /\ log[k].obj = "X_5@267" /\ log[k].est = env["iforest"]

\* the Score Vector objects of the heap
ScoreIds == {o \in DOMAIN heap : heap[o].t = "scores"}

\* C7: a Score Vector has one entry per row of the matrix that was scored:
\* kde_X per row of the blobs, the grid scores per mesh node (so that the
\* reshape to the mesh shape is exact), iforest_X per row of X_5.
C7_ScoreLengths ==
    /\ \A o \in ScoreIds : Len(heap[o].v) = Rows(AsMatrix(heap[o].on))
    /\ "kde_X" \in DOMAIN env =>
         /\ heap[env["kde_X"]].on = "X@60"
         /\ Len(heap[env["kde_X"]].v) = BlobSamples
    /\ \A z \in {"Z_kde", "Z_ocsvm", "Z_iforest"} : z \in DOMAIN env =>
         /\ heap[env[z]].t = "view"
         /\ heap[heap[env[z]].base].on = env["grid"]
         /\ heap[env[z]].shape = heap[env["xx"]].shape
         /\ heap[env[z]].shape[1] * heap[env[z]].shape[2] = Len(heap[heap[env[z]].base].v)
    /\ "iforest_X" \in DOMAIN env =>
         /\ heap[env["iforest_X"]].on = env["X_5"]
         /\ Len(heap[env["iforest_X"]].v) = Rows(heap[env["X_5"]])

\* C7 witness: a finished run with kde_X, the three grid scores and a
\* non-empty iforest_X
C7_Witness ==
    /\ Finished
    /\ Len(heap[env["iforest_X"]].v) = MaxDigits
    /\ Len(heap[heap[env["Z_iforest"]].base].v) > Len(heap[env["kde_X"]].v)

\* the objects that hold data: sample matrices, images, label vectors,
\* score vectors, the grid and its meshes, cutoffs, reshaped views
DataIds == {o \in DOMAIN heap : heap[o].t # "array"}

\* C8: no step of the run writes into a data object once it exists: the
\* blob matrix, the digit images, the label vectors, the score vectors and
\* the grid keep their contents; names are rebound and copies are made.
C8_NeverMutated ==
    [][\A o \in DataIds : o \in DOMAIN heap' /\ heap'[o] = heap[o]]_vars

\* C8 witness: a finished run: X and n_samples have been rebound, the blob
\* matrix is still there, and X_5 is a filtered copy
C8_Witness ==
    /\ Finished
    /\ env["X"] = "data@251" /\ env["n_samples"] = "n_samples@250"
    /\ "X@60" \in DOMAIN heap /\ Rows(heap["X@60"]) = BlobSamples
    /\ Rows(heap["X_5@267"]) > 0

\* the rows a panel shows
ShownSet(shown) == {shown[k] : k \in 1..Len(shown)}

\* C10: the outlier panel shows the strongest outliers: every image it
\* shows scores no higher than every image of X_5 it does not show,
\* however many images predict flags; and the inlier panel shows the
\* n_strong images with the highest scores.
C10_PanelsShowExtremes ==
    pn.stage = "outliers" =>
      LET n == Len(pn.scores)
      IN  /\ \A a \in ShownSet(pn.shown_out) : \A b \in (1..n) \ ShownSet(pn.shown_out) :
               pn.scores[a] <= pn.scores[b]
          /\ \A a \in ShownSet(pn.shown_in) : \A b \in (1..n) \ ShownSet(pn.shown_in) :
               pn.scores[a] >= pn.scores[b]
          /\ Cardinality(ShownSet(pn.shown_in)) = Min2(n, n_strong)

====
